---- MODULE Spec2Model ----
(***************************************************************************)
(* The JaCoCo coverage tools of server.py: find_jacoco_path,               *)
(* total_coverage and missing_coverage.                                    *)
(*                                                                         *)
(* Python strings are TLA+ strings (TLC applies Len, SubSeq and \o to      *)
(* them).  A percentage is kept in hundredths of a percent: 8000 is 80.0,  *)
(* 3333 is 33.33.  A Python dict is a record whose DOMAIN is its key set.  *)
(* An XML document is the sequence of its counter elements and the         *)
(* sequence of its sourcefile elements, both in document order, which is   *)
(* the order in which findall(".//tag") yields them.                       *)
(***************************************************************************)
EXTENDS Integers, Sequences, FiniteSets, TLC

VARIABLES
    fs,            \* the filesystem: existing path |-> content
    pc,            \* position of the current tool call
    tool,          \* the tool being called
    project_path,  \* argument project_path
    file_path,     \* argument file_path (missing_coverage only)
    jacoco_path,   \* local jacoco_path of the coverage tools
    tree,          \* the parsed document (root), once ET.parse succeeded
    result,        \* the value the call returns
    denoms,        \* history: the denominators the call divided by
    processed,     \* history: the positions of the sourcefile entries processed
    trace,         \* history: the steps the call went through
    args,          \* the arguments of a git tool call
    cmds,          \* history: the subprocesses the call ran, as argument lists
    repo,          \* the git side of the world: what the git commands answer
    loader,        \* the run of a server module: file, mode, next statement
    registry,      \* the tools registered on the shared server object mcp
    request        \* the last tool a client asked the serving server for

vars == <<fs, pc, tool, project_path, file_path, jacoco_path, tree, result,
          denoms, processed, trace, args, cmds, repo, loader, registry, request>>

\* what a call of a coverage tool leaves alone
outside == <<args, cmds, repo, loader, registry, request>>

None == "<None>"

----------------------------------------------------------------------------
(* Python string primitives *)

\* t in s
Contains(s, t) ==
    \E i \in 1..(Len(s) - Len(t) + 1) : SubSeq(s, i, i + Len(t) - 1) = t

\* the index of the last "/" of p, 0 when there is none
LastSlash(p) ==
    LET at == {i \in 1..Len(p) : SubSeq(p, i, i) = "/"}
    IN  IF at = {} THEN 0 ELSE CHOOSE i \in at : \A j \in at : j <= i

\* os.path.basename(p): what follows the last "/"
basename(p) == SubSeq(p, LastSlash(p) + 1, Len(p))

\* s.replace(old, new) for a non-empty old: every occurrence, left to right
RECURSIVE replace(_, _, _)
replace(s, old, new) ==
    IF Len(s) < Len(old) THEN s
    ELSE IF SubSeq(s, 1, Len(old)) = old
         THEN new \o replace(SubSeq(s, Len(old) + 1, Len(s)), old, new)
         ELSE SubSeq(s, 1, 1) \o replace(SubSeq(s, 2, Len(s)), old, new)

Digits == <<"0", "1", "2", "3", "4", "5", "6", "7", "8", "9">>

IsDigit(c) == \E d \in 1..10 : Digits[d] = c

DigitVal(c) == (CHOOSE d \in 1..10 : Digits[d] = c) - 1

RECURSIVE DecimalValue(_)
DecimalValue(s) ==
    IF Len(s) = 0 THEN 0
    ELSE 10 * DecimalValue(SubSeq(s, 1, Len(s) - 1))
         + DigitVal(SubSeq(s, Len(s), Len(s)))

Ok(v) == [ok |-> TRUE, val |-> v]
Raise(type, msg) == [ok |-> FALSE, type |-> type, err |-> msg]
NoExc == Ok(0)

\* int(s) for a string s: an optional sign and decimal digits, else ValueError
int(s) ==
    LET neg  == Len(s) > 0 /\ SubSeq(s, 1, 1) = "-"
        body == IF Len(s) > 0 /\ SubSeq(s, 1, 1) \in {"-", "+"}
                THEN SubSeq(s, 2, Len(s)) ELSE s
    IN  IF Len(body) > 0 /\ \A i \in 1..Len(body) : IsDigit(SubSeq(body, i, i))
        THEN Ok(IF neg THEN 0 - DecimalValue(body) ELSE DecimalValue(body))
        ELSE Raise("ValueError", "invalid literal for int() with base 10: '" \o s \o "'")

----------------------------------------------------------------------------
(* find_jacoco_path *)

NotFoundMsg == "JaCoCo report not found. Run 'mvn clean test' first."

jacoco_paths(pp) ==
    << pp \o "/target/site/jacoco/jacoco.xml",
       pp \o "/target/jacoco.xml",
       pp \o "/build/jacoco/jacoco.xml" >>

os_path_exists(path) == path \in DOMAIN fs

\* a locator that lets a later candidate win
find_jacoco_path_last(pp) ==
    LET paths == jacoco_paths(pp)
        hits  == {i \in 1..Len(paths) : os_path_exists(paths[i])}
    IN  IF hits = {} THEN NotFoundMsg
        ELSE paths[CHOOSE i \in hits : \A j \in hits : j <= i]

find_jacoco_path(pp) ==
    LET paths == jacoco_paths(pp)
        hits  == {i \in 1..Len(paths) : os_path_exists(paths[i])}
    IN  IF hits = {} THEN NotFoundMsg
        ELSE paths[CHOOSE i \in hits : \A j \in hits : i <= j]

----------------------------------------------------------------------------
(* XML elements: [attrs |-> the attributes present, ...] *)

\* int(element.get(key, 0))
int_get(e, key) ==
    IF key \in DOMAIN e.attrs THEN int(e.attrs[key]) ELSE Ok(0)

\* int(element.get(key)): int(None) is a TypeError
int_get_required(e, key) ==
    IF key \in DOMAIN e.attrs THEN int(e.attrs[key])
    ELSE Raise("TypeError",
               "int() argument must be a string, a bytes-like object or a real number, not 'NoneType'")

\* element.get(key, '')
str_get(e, key) == IF key \in DOMAIN e.attrs THEN e.attrs[key] ELSE ""

\* a path that takes every typed counter, whatever its type
type_is_any(e, kind) == "type" \in DOMAIN e.attrs

\* the predicate [@type='KIND'] of the findall paths
type_is(e, kind) == "type" \in DOMAIN e.attrs /\ e.attrs["type"] = kind

----------------------------------------------------------------------------
(* total_coverage *)

\* round((covered / total) * 100, 2) in hundredths, for total > 0.  Python
\* rounds the double to the nearest hundredth, an exact tie to the even one;
\* for the counts used here the double and the exact quotient round alike.
round_percent(covered, total) ==
    LET n == covered * 10000
        q == n \div total
        r == n % total
    IN  IF 2 * r > total \/ (2 * r = total /\ q % 2 = 1) THEN q + 1 ELSE q

\* a guard that lets a zero total through
total_not_negative(total) == total >= 0

\* the guard "if total > 0" of the four loops
total_positive(total) == total > 0

\* a loop that keeps the first percentage it computes
RECURSIVE counter_loop_first(_, _, _)
counter_loop_first(cs, kind, st) ==
    IF cs = <<>> \/ ~st.exc.ok THEN st
    ELSE IF ~type_is(Head(cs), kind) THEN counter_loop_first(Tail(cs), kind, st)
    ELSE
        LET covered == int_get(Head(cs), "covered")
            missed  == int_get(Head(cs), "missed")
        IN  IF ~covered.ok THEN [st EXCEPT !.exc = covered]
            ELSE IF ~missed.ok THEN [st EXCEPT !.exc = missed]
            ELSE
                LET total == covered.val + missed.val
                IN  IF total_positive(total)
                    THEN counter_loop_first(Tail(cs), kind,
                             [st EXCEPT !.val = IF st.denoms = <<>>
                                                THEN round_percent(covered.val, total)
                                                ELSE @,
                                        !.denoms = Append(@, total)])
                    ELSE counter_loop_first(Tail(cs), kind, st)

\* One loop "for counter in root.findall(".//counter[@type='KIND']")" over the
\* counters cs left to visit.  st = [val |-> the percentage stored under the
\* kind's key, exc |-> the exception raised (NoExc if none), denoms |-> the
\* denominators divided by].
RECURSIVE counter_loop(_, _, _)
counter_loop(cs, kind, st) ==
    IF cs = <<>> \/ ~st.exc.ok THEN st
    ELSE IF ~type_is(Head(cs), kind) THEN counter_loop(Tail(cs), kind, st)
    ELSE
        LET covered == int_get(Head(cs), "covered")
            missed  == int_get(Head(cs), "missed")
        IN  IF ~covered.ok THEN [st EXCEPT !.exc = covered]
            ELSE IF ~missed.ok THEN [st EXCEPT !.exc = missed]
            ELSE
                LET total == covered.val + missed.val
                IN  IF total_positive(total)
                    THEN IF total = 0
                         THEN [st EXCEPT !.exc = Raise("ZeroDivisionError", "division by zero"),
                                         !.denoms = Append(@, total)]
                         ELSE counter_loop(Tail(cs), kind,
                                  [st EXCEPT !.val = round_percent(covered.val, total),
                                             !.denoms = Append(@, total)])
                    ELSE counter_loop(Tail(cs), kind, st)

Kinds == <<"LINE", "BRANCH", "METHOD", "INSTRUCTION">>

\* The four loops in their order; a loop that raised ends the traversal.
\* Returns [data |-> the four percentages, exc, denoms].
coverage_loops(root) ==
    LET start(prev) == [val |-> 0, exc |-> prev.exc, denoms |-> prev.denoms]
        l == counter_loop(root.counters, Kinds[1],
                          [val |-> 0, exc |-> NoExc, denoms |-> <<>>])
        b == counter_loop(root.counters, Kinds[2], start(l))
        m == counter_loop(root.counters, Kinds[3], start(b))
        i == counter_loop(root.counters, Kinds[4], start(m))
    IN  [data |-> [line_coverage        |-> l.val,
                   branch_coverage      |-> b.val,
                   method_coverage      |-> m.val,
                   instruction_coverage |-> i.val],
         exc |-> i.exc,
         denoms |-> i.denoms]

----------------------------------------------------------------------------
(* missing_coverage *)

\* file_name = os.path.basename(file_path).replace('.java', '.class')
file_name_of(fp) == replace(basename(fp), ".java", ".class")

\* a test that looks for the mapped base name only
sourcefile_matches_name_only(sf, fp) ==
    Contains(str_get(sf, "name"), file_name_of(fp))

\* if file_name in sourcefile.get('name', '') or file_path in sourcefile.get('name', '')
sourcefile_matches(sf, fp) ==
    \/ Contains(str_get(sf, "name"), file_name_of(fp))
    \/ Contains(str_get(sf, "name"), fp)

\* a test that takes every line
is_uncovered_any(ci) == ci >= 0

\* the test "if ci == 0"
is_uncovered(ci) == ci = 0

\* "for line in sourcefile.findall(".//line")" over the lines ls left to visit;
\* st.out is uncovered_lines so far, st.exc the exception raised
RECURSIVE line_loop(_, _)
line_loop(ls, st) ==
    IF ls = <<>> \/ ~st.exc.ok THEN st
    ELSE
        LET line == Head(ls)
            ci   == int_get(line, "ci")
            nr   == int_get_required(line, "nr")
            cb   == int_get(line, "cb")
        IN  IF ~ci.ok THEN [st EXCEPT !.exc = ci]
            ELSE IF ~is_uncovered(ci.val) THEN line_loop(Tail(ls), st)
            ELSE IF ~nr.ok THEN [st EXCEPT !.exc = nr]
            ELSE IF ~cb.ok THEN [st EXCEPT !.exc = cb]
            ELSE line_loop(Tail(ls),
                     [st EXCEPT !.out = Append(@, [line_number       |-> nr.val,
                                                   instruction_count |-> ci.val,
                                                   branch_count      |-> cb.val])])

\* "for sourcefile in root.findall(".//sourcefile")" over the entries sfs left;
\* st.pos counts the entries visited and st.processed lists the positions of
\* those whose lines were looked at
RECURSIVE sourcefile_loop(_, _, _)
sourcefile_loop(sfs, fp, st) ==
    IF sfs = <<>> \/ ~st.exc.ok THEN st
    ELSE IF sourcefile_matches(Head(sfs), fp)
         THEN sourcefile_loop(Tail(sfs), fp,
                  line_loop(Head(sfs).lines,
                            [st EXCEPT !.pos = @ + 1,
                                       !.processed = Append(@, st.pos + 1)]))
         ELSE sourcefile_loop(Tail(sfs), fp, [st EXCEPT !.pos = @ + 1])

uncovered_result(fp, uncovered_lines) ==
    [file                  |-> fp,
     total_uncovered_lines |-> Len(uncovered_lines),
     uncovered_lines       |-> uncovered_lines]

----------------------------------------------------------------------------
(* ET.parse and the except clauses *)

\* ET.parse(path): opens the file and parses it
ET_parse(path) ==
    IF ~os_path_exists(path)
    THEN Raise("FileNotFoundError",
               "[Errno 2] No such file or directory: '" \o path \o "'")
    ELSE IF fs[path].kind = "dir"
    THEN Raise("IsADirectoryError", "[Errno 21] Is a directory: '" \o path \o "'")
    ELSE IF fs[path].kind = "garbage"
    THEN Raise("ParseError", fs[path].msg)
    ELSE Ok(fs[path])

\* the except clauses of a tool, in their order: the exception class caught
\* and the prefix of the error text
except_clauses(t) ==
    IF t = "total_coverage"
    THEN << [class |-> "ParseError", prefix |-> "Invalid JaCoCo XML: "],
            [class |-> "Exception",  prefix |-> "Coverage parsing failed: "] >>
    ELSE << [class |-> "Exception",  prefix |-> "Coverage analysis failed: "] >>

\* handlers that catch the named class only
catches_exact(class, type) == class = type

\* "except class" catches an exception of type: every exception raised here
\* derives from Exception
catches(class, type) == class = "Exception" \/ class = type

\* what leaving the try block with exception exc does: the first clause that
\* catches it returns {"error": prefix + str(e)}; with none, it propagates
handle(t, exc) ==
    LET cl   == except_clauses(t)
        hits == {i \in 1..Len(cl) : catches(cl[i].class, exc.type)}
    IN  IF hits = {}
        THEN [escaped |-> TRUE, exc |-> exc]
        ELSE [escaped |-> FALSE,
              value |-> [error |-> cl[CHOOSE i \in hits : \A j \in hits : i <= j].prefix
                                   \o exc.err]]

\* a guard that never takes the not-found exit
is_not_found_never(path) == FALSE

\* if "not found" in jacoco_path
is_not_found(path) == Contains(path, "not found")

----------------------------------------------------------------------------
(* A tool call, step by step *)

\* no git repository and no module run are part of the state
NoRepo == repo = None
NoModule == [file |-> None, main |-> FALSE, next |-> 0, serving |-> FALSE]
NoServer == loader = NoModule /\ registry = {} /\ request = None

Idle ==
    /\ pc = "idle"
    /\ tool = None /\ project_path = None /\ file_path = None
    /\ jacoco_path = None /\ tree = None /\ result = None
    /\ denoms = <<>> /\ processed = <<>> /\ trace = <<>>
    /\ args = None /\ cmds = <<>>

\* the server dispatches a call of tool t
Invoke(t, pp, fp) ==
    /\ pc = "idle"
    /\ pc' = "locate"
    /\ tool' = t
    /\ project_path' = pp
    /\ file_path' = IF t = "missing_coverage" THEN fp ELSE None
    /\ UNCHANGED <<fs, jacoco_path, tree, result, denoms, processed, trace>>
    /\ UNCHANGED outside

\* find_jacoco_path(project_path): the whole tool when called directly, the
\* first statement of the two coverage tools
Locate ==
    /\ pc = "locate"
    /\ trace' = Append(trace, "locate")
    /\ IF tool = "find_jacoco_path"
       THEN /\ result' = find_jacoco_path(project_path)
            /\ pc' = "done"
            /\ UNCHANGED jacoco_path
       ELSE /\ jacoco_path' = find_jacoco_path(project_path)
            /\ pc' = "guard"
            /\ UNCHANGED result
    /\ UNCHANGED <<fs, tool, project_path, file_path, tree, denoms, processed>>
    /\ UNCHANGED outside

\* if "not found" in jacoco_path: return {"error": jacoco_path}
ReturnNotFound ==
    /\ pc = "guard"
    /\ is_not_found(jacoco_path)
    /\ result' = [error |-> jacoco_path]
    /\ pc' = "done"
    /\ UNCHANGED <<fs, tool, project_path, file_path, jacoco_path, tree, denoms,
                   processed, trace>>
    /\ UNCHANGED outside

\* tree = ET.parse(jacoco_path); root = tree.getroot()
Parse ==
    /\ pc = "guard"
    /\ ~is_not_found(jacoco_path)
    /\ trace' = Append(trace, "parse")
    /\ LET parsed == ET_parse(jacoco_path)
           h      == handle(tool, parsed)
       IN  IF parsed.ok
           THEN /\ tree' = parsed.val
                /\ pc' = "traverse"
                /\ UNCHANGED result
           ELSE /\ result' = IF h.escaped THEN h.exc ELSE h.value
                /\ pc' = IF h.escaped THEN "raised" ELSE "done"
                /\ UNCHANGED tree
    /\ UNCHANGED <<fs, tool, project_path, file_path, jacoco_path, denoms, processed>>
    /\ UNCHANGED outside

\* the rest of the try block: the loops over the document and the return
Traverse ==
    /\ pc = "traverse"
    /\ trace' = Append(trace, "traverse")
    /\ LET c   == coverage_loops(tree)
           m   == sourcefile_loop(tree.sourcefiles, file_path,
                                  [out |-> <<>>, exc |-> NoExc, pos |-> 0,
                                   processed |-> <<>>])
           exc == IF tool = "total_coverage" THEN c.exc ELSE m.exc
           h   == handle(tool, exc)
       IN  /\ denoms' = IF tool = "total_coverage" THEN c.denoms ELSE <<>>
           /\ processed' = IF tool = "total_coverage" THEN <<>> ELSE m.processed
           /\ IF exc.ok
              THEN /\ result' = IF tool = "total_coverage" THEN c.data
                                 ELSE uncovered_result(file_path, m.out)
                   /\ pc' = "done"
              ELSE /\ result' = IF h.escaped THEN h.exc ELSE h.value
                   /\ pc' = IF h.escaped THEN "raised" ELSE "done"
    /\ UNCHANGED <<fs, tool, project_path, file_path, jacoco_path, tree>>
    /\ UNCHANGED outside

\* the call is over (it returned or raised); nothing of it is kept
Return ==
    /\ pc \in {"done", "raised"}
    /\ pc' = "idle"
    /\ tool' = None /\ project_path' = None /\ file_path' = None
    /\ jacoco_path' = None /\ tree' = None /\ result' = None
    /\ denoms' = <<>> /\ processed' = <<>> /\ trace' = <<>>
    /\ args' = None /\ cmds' = <<>>
    /\ UNCHANGED <<fs, repo, loader, registry, request>>

----------------------------------------------------------------------------
(* Files and documents the calls are run against *)

MaxCounters == 2      \* counter elements in a document
MaxSourcefiles == 2   \* sourcefile elements in a document
MaxLines == 2         \* line elements in a document, over all its sourcefiles

\* the attributes present, from a record in which None marks an absent one
Present(f) == [k \in {k \in DOMAIN f : f[k] # None} |-> f[k]]

Counter(scope, type, covered, missed) ==
    [scope |-> scope,
     attrs |-> Present([type |-> type, covered |-> covered, missed |-> missed])]

Line(nr, ci, cb) == [attrs |-> Present([nr |-> nr, ci |-> ci, cb |-> cb])]

Sourcefile(name, lines) == [attrs |-> Present([name |-> name]), lines |-> lines]

Xml(counters, sourcefiles) ==
    [kind |-> "xml", counters |-> counters, sourcefiles |-> sourcefiles]

NoFile == [kind |-> "none"]
Dir == [kind |-> "dir"]
Garbage == [kind |-> "garbage", msg |-> "no element found: line 1, column 8"]

\* the filesystem in which the candidates of project directory d hold c[1..3]
Populated(d, c) ==
    LET paths == jacoco_paths(d)
        here  == {i \in DOMAIN paths : c[i] # NoFile}
    IN  [p \in {paths[i] : i \in here} |-> c[CHOOSE i \in here : paths[i] = p]]

\* all sequences over S of length at most n
RECURSIVE SeqsUpTo(_, _)
SeqsUpTo(S, n) ==
    IF n = 0 THEN {<<>>}
    ELSE LET shorter == SeqsUpTo(S, n - 1)
         IN  shorter \cup {Append(q, x) : q \in shorter, x \in S}

ProjectPaths == {".", "proj", "my not found dir"}

\* a report of one root LINE counter and one source file
ReportA ==
    Xml(<< Counter("report", "LINE", "80", "20") >>,
        << Sourcefile("Foo.class", << Line("7", "0", "0"), Line("8", "3", "1") >>) >>)

\* a well-formed document whose attributes are not integers
ReportBad ==
    Xml(<< Counter("report", "LINE", "many", "20") >>,
        << Sourcefile("Foo.class", << Line("7", "none", "0") >>) >>)

Contents == {NoFile, Dir, Garbage, ReportA, ReportBad}

FilePaths == {"src/Foo.java", "Foo.java", "src/Foo.java.orig", ""}

Init ==
    /\ \E d \in ProjectPaths :
         \E c \in [DOMAIN jacoco_paths(d) -> Contents] : fs = Populated(d, c)
    /\ Idle
    /\ NoRepo /\ NoServer

Next ==
    \/ \E t \in {"find_jacoco_path", "total_coverage"}, pp \in ProjectPaths :
          Invoke(t, pp, None)
    \/ \E pp \in ProjectPaths, fp \in {"src/Foo.java", ""} :
          Invoke("missing_coverage", pp, fp)
    \/ Locate
    \/ ReturnNotFound
    \/ Parse
    \/ Traverse
    \/ Return

Spec == Init /\ [][Next]_vars

----------------------------------------------------------------------------
(* total_coverage over the documents of up to MaxCounters counters *)

KindPool == {"LINE", "BRANCH", "METHOD", "INSTRUCTION", "CLASS"}

\* <<scope, covered, missed>>
CounterShapes ==
    { <<"report", "80", "20">>,
      <<"package", "1", "2">>,
      <<"report", "0", "0">>,
      <<"class", None, "3">>,
      <<"method", "x", None>> }

CounterPool == {Counter(sh[1], k, sh[2], sh[3]) : k \in KindPool, sh \in CounterShapes}

CounterDocs == {Xml(cs, <<>>) : cs \in SeqsUpTo(CounterPool, MaxCounters)}

InitCoverage ==
    /\ \E doc \in CounterDocs :
         fs = Populated(".", [j \in DOMAIN jacoco_paths(".") |->
                                 IF j = 1 THEN doc ELSE NoFile])
    /\ Idle
    /\ NoRepo /\ NoServer

NextCoverage ==
    \/ \E pp \in {".", "proj"} : Invoke("total_coverage", pp, None)
    \/ Locate
    \/ ReturnNotFound
    \/ Parse
    \/ Traverse
    \/ Return

SpecCoverage == InitCoverage /\ [][NextCoverage]_vars

----------------------------------------------------------------------------
(* missing_coverage over the documents of up to MaxSourcefiles entries *)

SourceNames == {"Foo.class", "Foo.java", "Foo.java.orig"}

LinePool ==
    { Line("10", "0", "0"), Line("11", "3", "1"), Line("12", None, "2") }

\* the sequences of at most n sourcefile entries holding at most l lines in all
RECURSIVE SourcefileSeqs(_, _)
SourcefileSeqs(n, l) ==
    IF n = 0 THEN {<<>>}
    ELSE {<<>>} \cup
         UNION { { <<Sourcefile(name, ls)>> \o rest :
                     name \in SourceNames, rest \in SourcefileSeqs(n - 1, l - Len(ls)) } :
                 ls \in SeqsUpTo(LinePool, l) }

SourceDocs == {Xml(<<>>, sfs) : sfs \in SourcefileSeqs(MaxSourcefiles, MaxLines)}

InitMissing ==
    /\ \E doc \in SourceDocs :
         fs = Populated(".", [j \in DOMAIN jacoco_paths(".") |->
                                 IF j = 1 THEN doc ELSE NoFile])
    /\ Idle
    /\ NoRepo /\ NoServer

NextMissing ==
    \/ \E fp \in FilePaths : Invoke("missing_coverage", ".", fp)
    \/ Invoke("missing_coverage", "proj", "src/Foo.java")
    \/ Locate
    \/ ReturnNotFound
    \/ Parse
    \/ Traverse
    \/ Return

SpecMissing == InitMissing /\ [][NextMissing]_vars

----------------------------------------------------------------------------
(* Properties of the locator and of the error results (Spec) *)

CoverageTools == {"total_coverage", "missing_coverage"}

SummaryKeys == {"line_coverage", "branch_coverage", "method_coverage",
                "instruction_coverage"}

Sentinel == "JaCoCo report not found. Run 'mvn clean test' first."

First(pp)  == pp \o "/target/site/jacoco/jacoco.xml"
Second(pp) == pp \o "/target/jacoco.xml"
Third(pp)  == pp \o "/build/jacoco/jacoco.xml"

Exists(path) == path \in DOMAIN fs

NoReport(pp) == ~Exists(First(pp)) /\ ~Exists(Second(pp)) /\ ~Exists(Third(pp))

\* the report a call for pp is to read
FirstExisting(pp) ==
    IF Exists(First(pp)) THEN First(pp)
    ELSE IF Exists(Second(pp)) THEN Second(pp)
    ELSE Third(pp)

\* the locator has run in the current call
Located == \/ tool = "find_jacoco_path" /\ pc = "done"
           \/ tool \in CoverageTools /\ pc \in {"guard", "traverse", "done", "raised"}

LocatorValue == IF tool = "find_jacoco_path" THEN result ELSE jacoco_path

Finished == pc \in {"done", "raised"}

\* C1: find_jacoco_path returns the first of <p>/target/site/jacoco/jacoco.xml,
\* <p>/target/jacoco.xml, <p>/build/jacoco/jacoco.xml that exists, an earlier
\* one winning over a later one; when none exists it returns the sentinel
\* string, and it never raises.
C1_FirstExistingCandidate ==
    /\ tool = "find_jacoco_path" => pc # "raised"
    /\ Located =>
         LocatorValue = IF NoReport(project_path) THEN Sentinel
                        ELSE FirstExisting(project_path)

C1_Witness ==
    /\ tool = "find_jacoco_path" /\ pc = "done"
    /\ ~Exists(First(project_path))
    /\ Exists(Second(project_path)) /\ Exists(Third(project_path))
    /\ result = Second(project_path)

\* C6: when the report a call reads is not well-formed XML, total_coverage
\* returns a mapping whose only key is error and whose value carries the
\* parser's message, missing_coverage returns an error mapping, and no
\* exception leaves the call.
C6_MalformedReported ==
    ( /\ tool \in CoverageTools /\ Finished
      /\ ~NoReport(project_path)
      /\ fs[FirstExisting(project_path)].kind = "garbage" )
    => /\ pc = "done"
       /\ DOMAIN result = {"error"}
       /\ tool = "total_coverage" =>
             Contains(result.error, fs[FirstExisting(project_path)].msg)

\* C7: a call of total_coverage ends by returning either a mapping with
\* exactly the four coverage keys or a mapping with exactly the key error
\* holding a string; no exception leaves the call.
C7_TwoResultShapes ==
    tool = "total_coverage" =>
        /\ pc # "raised"
        /\ pc = "done" =>
             \/ DOMAIN result = SummaryKeys /\ \A k \in SummaryKeys : result[k] \in Int
             \/ DOMAIN result = {"error"} /\ result.error \in STRING

C7_Witness ==
    /\ tool = "total_coverage" /\ pc = "done"
    /\ ~NoReport(project_path)
    /\ fs[FirstExisting(project_path)] = ReportBad
    /\ result = [error |-> "Coverage parsing failed: invalid literal for int() with base 10: 'many'"]

\* C8: when no report exists at any candidate path, total_coverage and
\* missing_coverage return {error: sentinel} without a parse step; in every
\* call a parse step comes after the locator step.
C8_NotFoundBeforeParse ==
    tool \in CoverageTools =>
        /\ \A i \in DOMAIN trace :
             trace[i] = "parse" => \E j \in 1..(i - 1) : trace[j] = "locate"
        /\ NoReport(project_path) =>
             /\ \A i \in DOMAIN trace : trace[i] # "parse"
             /\ pc \notin {"traverse", "raised"}
             /\ pc = "done" => result = [error |-> Sentinel]

C8_Witness ==
    /\ tool = "missing_coverage" /\ pc = "done"
    /\ NoReport(project_path)
    /\ fs # <<>>
    /\ result = [error |-> Sentinel]
    /\ trace = <<"locate">>

----------------------------------------------------------------------------
(* Properties of total_coverage (SpecCoverage) *)

KeyOf(kind) ==
    CASE kind = "LINE"        -> "line_coverage"
      [] kind = "BRANCH"      -> "branch_coverage"
      [] kind = "METHOD"      -> "method_coverage"
      [] kind = "INSTRUCTION" -> "instruction_coverage"

FourKinds == {"LINE", "BRANCH", "METHOD", "INSTRUCTION"}

\* total_coverage went through the document and returned
Traversed == tool = "total_coverage" /\ pc = "done" /\ trace = <<"locate", "parse", "traverse">>

\* ... and returned a summary
Summary == Traversed /\ DOMAIN result = SummaryKeys

\* the positions, in document order, of the counters of a kind
OfKind(kind) ==
    {i \in DOMAIN tree.counters :
        /\ "type" \in DOMAIN tree.counters[i].attrs
        /\ tree.counters[i].attrs["type"] = kind}

Covered(i) == int_get(tree.counters[i], "covered").val
Missed(i)  == int_get(tree.counters[i], "missed").val
Total(i)   == Covered(i) + Missed(i)

\* the counters of the four kinds all carry integers
AllIntegers ==
    \A kind \in FourKinds : \A i \in OfKind(kind) :
        /\ int_get(tree.counters[i], "covered").ok
        /\ int_get(tree.counters[i], "missed").ok

Positive(kind) == {i \in OfKind(kind) : Total(i) > 0}

Last(S) == CHOOSE i \in S : \A j \in S : j <= i

\* the percentage counter i stands for, 0 when its total is 0
Percent(i) == IF Total(i) > 0 THEN round_percent(Covered(i), Total(i)) ELSE 0

\* what total_coverage returns for a parsed document
OutcomeOf(doc) ==
    LET c == coverage_loops(doc)
    IN  IF c.exc.ok THEN c.data ELSE handle("total_coverage", c.exc).value

\* the document without the counters that satisfy Drop
Without(doc, Drop(_)) ==
    [doc EXCEPT !.counters = SelectSeq(@, LAMBDA c : ~Drop(c))]

IsUnknownKind(c) ==
    ~("type" \in DOMAIN c.attrs /\ c.attrs["type"] \in FourKinds)

IsZeroTotal(c) ==
    /\ ~IsUnknownKind(c)
    /\ int_get(c, "covered").ok /\ int_get(c, "missed").ok
    /\ int_get(c, "covered").val + int_get(c, "missed").val = 0

\* the totals of the positive counters, kind after kind, in document order
RECURSIVE PositiveTotals(_, _)
PositiveTotals(k, i) ==
    IF k > Len(Kinds) THEN <<>>
    ELSE IF i > Len(tree.counters) THEN PositiveTotals(k + 1, 1)
    ELSE IF i \in Positive(Kinds[k])
         THEN <<Total(i)>> \o PositiveTotals(k, i + 1)
         ELSE PositiveTotals(k, i + 1)

\* C2: for each of the four kinds the percentage returned is the one of the
\* report-level (root-scoped) counter of that kind, wherever counters of that
\* kind at finer scopes stand in the document; a root LINE counter with
\* covered=80, missed=20 gives line_coverage = 80.0.  (Stated for a document
\* with one root counter of the kind, whose total is positive.)
C2_RootCounterReported ==
    Summary =>
        \A kind \in FourKinds : \A i \in OfKind(kind) :
            ( /\ tree.counters[i].scope = "report"
              /\ Total(i) > 0
              /\ \A j \in OfKind(kind) \ {i} : tree.counters[j].scope # "report" )
            => result[KeyOf(kind)] = Percent(i)

\* C3 as claimed: with several counters of a kind, the percentage returned for
\* the kind is the one computed from the last of them in document order.
C3_LastCounterWins ==
    Summary =>
        \A kind \in FourKinds :
            OfKind(kind) # {} => result[KeyOf(kind)] = Percent(Last(OfKind(kind)))

\* C3 amended: the counters of a kind are visited in document order and the
\* percentage returned for the kind is the one computed from the last of them
\* whose covered + missed is positive (0 when there is none); a kind's
\* percentage depends on the counters of that kind alone.
C3_LastPositiveCounterWins ==
    /\ Summary => denoms = PositiveTotals(1, 1)
    /\ Summary =>
         \A kind \in FourKinds :
             result[KeyOf(kind)] =
                 IF Positive(kind) = {} THEN 0 ELSE Percent(Last(Positive(kind)))

C3_Witness ==
    /\ Summary
    /\ tree.counters = << Counter("report", "LINE", "80", "20"),
                          Counter("package", "LINE", "1", "2") >>
    /\ result.line_coverage = 3333
    /\ denoms = <<100, 3>>

\* C4 as claimed: a kind one of whose counters has covered + missed = 0 is
\* reported as 0 in a summary, without a division, also when other counters
\* of that kind stand elsewhere in the document.
C4_ZeroTotalReportsZero ==
    (Traversed /\ AllIntegers) =>
        \A kind \in FourKinds :
            (\E i \in OfKind(kind) : Total(i) = 0) =>
                /\ DOMAIN result = SummaryKeys
                /\ result[KeyOf(kind)] = 0

\* C4 amended: total_coverage never divides by zero; a counter with
\* covered + missed = 0 causes no division and no error result, and it leaves
\* the percentage of its kind as the other counters of the kind set it: the
\* result is the one of the report without the zero-total counters, which is
\* the default 0 for a kind all of whose counters have a zero total.
C4_ZeroTotalLeavesValue ==
    /\ \A j \in DOMAIN denoms : denoms[j] > 0
    /\ (Traversed /\ AllIntegers) =>
         /\ DOMAIN result = SummaryKeys
         /\ result = OutcomeOf(Without(tree, IsZeroTotal))
         /\ \A kind \in FourKinds :
              (\A i \in OfKind(kind) : Total(i) = 0) => result[KeyOf(kind)] = 0

C4_Witness ==
    /\ Summary
    /\ tree.counters = << Counter("package", "LINE", "1", "2"),
                          Counter("report", "LINE", "0", "0") >>
    /\ result.line_coverage = 3333
    /\ denoms = <<3>>

\* C5: a kind among the four with no counter in the document is reported as
\* 0, and counters of any other type change nothing: the result is the one of
\* the report without them.
C5_UnknownKindsIgnored ==
    Traversed =>
        /\ result = OutcomeOf(Without(tree, IsUnknownKind))
        /\ AllIntegers => DOMAIN result = SummaryKeys
        /\ Summary =>
             \A kind \in FourKinds : OfKind(kind) = {} => result[KeyOf(kind)] = 0

C5_Witness ==
    /\ Summary
    /\ tree.counters = << Counter("report", "CLASS", "80", "20"),
                          Counter("package", "BRANCH", "1", "2") >>
    /\ result = [line_coverage |-> 0, branch_coverage |-> 3333,
                 method_coverage |-> 0, instruction_coverage |-> 0]

----------------------------------------------------------------------------
(* Properties of missing_coverage (SpecMissing) *)

\* missing_coverage went through the document and returned its listing
Listing ==
    /\ tool = "missing_coverage" /\ pc = "done"
    /\ DOMAIN result = {"file", "total_uncovered_lines", "uncovered_lines"}

NameOf(i) ==
    IF "name" \in DOMAIN tree.sourcefiles[i].attrs
    THEN tree.sourcefiles[i].attrs["name"] ELSE ""

Number(line, key) == IF key \in DOMAIN line.attrs THEN int(line.attrs[key]).val ELSE 0

HasZeroCi(line) == Number(line, "ci") = 0

EntryOf(line) ==
    [line_number       |-> Number(line, "nr"),
     instruction_count |-> Number(line, "ci"),
     branch_count      |-> Number(line, "cb")]

\* the line nodes of the processed entries, in document order
RECURSIVE LinesOf(_)
LinesOf(positions) ==
    IF positions = <<>> THEN <<>>
    ELSE tree.sourcefiles[Head(positions)].lines \o LinesOf(Tail(positions))

\* the positions in 1..n that satisfy Test, ascending
Ascending(n, Test(_)) == SelectSeq([i \in 1..n |-> i], Test)

\* b with a final ".java" turned into ".class"
ExtensionMapped(b) ==
    IF Len(b) >= 5 /\ SubSeq(b, Len(b) - 4, Len(b)) = ".java"
    THEN SubSeq(b, 1, Len(b) - 5) \o ".class"
    ELSE b

\* C9: of the entries missing_coverage processes, a line is listed in
\* uncovered_lines iff its ci is 0, whatever its cb; the entries come in
\* document order with line_number = nr, instruction_count = ci,
\* branch_count = cb, and total_uncovered_lines is the length of the list.
C9_ZeroCiLinesListed ==
    Listing =>
        LET zero == SelectSeq(LinesOf(processed), HasZeroCi)
        IN  /\ result.uncovered_lines = [n \in 1..Len(zero) |-> EntryOf(zero[n])]
            /\ result.total_uncovered_lines = Len(result.uncovered_lines)
            /\ result.file = file_path

C9_Witness ==
    /\ Listing
    /\ file_path = "src/Foo.java"
    /\ tree.sourcefiles =
           << Sourcefile("Foo.class", << Line("10", "0", "0"), Line("11", "3", "1") >>) >>
    /\ result.uncovered_lines =
           << [line_number |-> 10, instruction_count |-> 0, branch_count |-> 0] >>
    /\ result.total_uncovered_lines = 1

\* C10 as claimed: an entry is processed iff its name contains the base name
\* of file_path with its .java extension mapped to .class, or contains
\* file_path.
C10_ExtensionMappedMatch ==
    Listing =>
        \A i \in DOMAIN tree.sourcefiles :
            (\E n \in DOMAIN processed : processed[n] = i)
            <=> \/ Contains(NameOf(i), ExtensionMapped(basename(file_path)))
                \/ Contains(NameOf(i), file_path)

\* C10 amended: an entry is processed iff its name contains the base name of
\* file_path with every occurrence of ".java" in it replaced by ".class", or
\* contains file_path; every such entry contributes its uncovered lines and
\* no other entry contributes any.
C10_ReplacedNameMatch ==
    Listing =>
        LET Hit(i) == \/ Contains(NameOf(i), replace(basename(file_path), ".java", ".class"))
                      \/ Contains(NameOf(i), file_path)
            hits   == Ascending(Len(tree.sourcefiles), Hit)
        IN  /\ processed = hits
            /\ Len(result.uncovered_lines) = Len(SelectSeq(LinesOf(hits), HasZeroCi))

C10_Witness ==
    /\ Listing
    /\ file_path = "Foo.java"
    /\ tree.sourcefiles = << Sourcefile("Foo.java", << Line("10", "0", "0") >>),
                             Sourcefile("Foo.class", << Line("12", None, "2") >>) >>
    /\ processed = <<1, 2>>
    /\ Len(result.uncovered_lines) = 2

----------------------------------------------------------------------------
(* Running a server module: its top-level statements, in file order *)

ToolStmt(name) == [kind |-> "tool", name |-> name]

\* if __name__ == "__main__": mcp.run(transport="sse")
MainStmt == [kind |-> "main"]

\* src/server.py
server_py ==
    << ToolStmt("add"), ToolStmt("subtract"), ToolStmt("multiply"),
       ToolStmt("divide"),
       MainStmt,
       ToolStmt("find_jacoco_path"), ToolStmt("analyze_java_code"),
       ToolStmt("generate_test_template"), ToolStmt("total_coverage"),
       ToolStmt("run_maven_tests"), ToolStmt("missing_coverage") >>

\* src/final_project_se333_sidiqa/codebase/server.py
final_server_py ==
    server_py \o
    << ToolStmt("git_status"), ToolStmt("git_add_all"), ToolStmt("git_commit"),
       ToolStmt("git_push"), ToolStmt("git_pull_request"),
       ToolStmt("generate_specification_tests"), ToolStmt("code_review"),
       MainStmt >>

Modules == {"server.py", "final_project/server.py"}

Statements(file) == IF file = "server.py" THEN server_py ELSE final_server_py

\* the tools a module defines
DefinedTools(file) ==
    LET stmts == Statements(file)
    IN  {stmts[i].name : i \in {i \in DOMAIN stmts : stmts[i].kind = "tool"}}

Loading ==
    /\ loader.file # None
    /\ ~loader.serving
    /\ loader.next \in DOMAIN Statements(loader.file)

NextStmt == Statements(loader.file)[loader.next]

\* mcp = FastMCP(...) has run; the first statement is next
Start(file, main) ==
    /\ loader = [file |-> file, main |-> main, next |-> 1, serving |-> FALSE]
    /\ registry = {}
    /\ request = None

\* @mcp.tool() def name(...): the decorator registers the function on mcp
RegisterTool ==
    /\ Loading
    /\ NextStmt.kind = "tool"
    /\ registry' = registry \cup {NextStmt.name}
    /\ loader' = [loader EXCEPT !.next = @ + 1]
    /\ UNCHANGED <<fs, pc, tool, project_path, file_path, jacoco_path, tree,
                   result, denoms, processed, trace, args, cmds, repo, request>>

\* if __name__ == "__main__": false when the module is imported
SkipMain ==
    /\ Loading
    /\ NextStmt.kind = "main"
    /\ ~loader.main
    /\ loader' = [loader EXCEPT !.next = @ + 1]
    /\ UNCHANGED <<fs, pc, tool, project_path, file_path, jacoco_path, tree,
                   result, denoms, processed, trace, args, cmds, repo, registry,
                   request>>

\* mcp.run(transport="sse"): the call serves and does not return meanwhile
RunServer ==
    /\ Loading
    /\ NextStmt.kind = "main"
    /\ loader.main
    /\ loader' = [loader EXCEPT !.serving = TRUE]
    /\ UNCHANGED <<fs, pc, tool, project_path, file_path, jacoco_path, tree,
                   result, denoms, processed, trace, args, cmds, repo, registry,
                   request>>

\* a client asks the serving server for a tool by name; the server knows
\* the tools registered so far
CallTool(name) ==
    /\ loader.file # None
    /\ loader.serving
    /\ request' = [tool |-> name, known |-> name \in registry]
    /\ UNCHANGED <<fs, pc, tool, project_path, file_path, jacoco_path, tree,
                   result, denoms, processed, trace, args, cmds, repo, loader,
                   registry>>

\* the server is shut down and mcp.run returns: the module goes on
ServerReturns ==
    /\ loader.file # None
    /\ loader.serving
    /\ loader' = [loader EXCEPT !.serving = FALSE, !.next = @ + 1]
    /\ UNCHANGED <<fs, pc, tool, project_path, file_path, jacoco_path, tree,
                   result, denoms, processed, trace, args, cmds, repo, registry,
                   request>>

NoFiles == [p \in {} |-> NoFile]

InitLoad ==
    /\ fs = NoFiles
    /\ Idle
    /\ NoRepo
    /\ \E file \in Modules, main \in BOOLEAN : Start(file, main)

NextLoad ==
    \/ RegisterTool
    \/ SkipMain
    \/ RunServer
    \/ \E name \in DefinedTools(loader.file) : CallTool(name)
    \/ ServerReturns

SpecLoad == InitLoad /\ [][NextLoad]_vars

Serving == loader.file # None /\ loader.serving

(* C11: when a module is run as the main program, every tool it defines is
   registered on mcp before the server starts serving: in no reachable state
   is mcp.run serving while a tool of the file is still unregistered. *)
C11_AllRegisteredBeforeServing ==
    (Serving /\ loader.main) => DefinedTools(loader.file) \subseteq registry

----------------------------------------------------------------------------
(* The not-found guard of the coverage tools (Spec) *)

Parsed == \E i \in DOMAIN trace : trace[i] = "parse"

(* C12: total_coverage and missing_coverage return the not-found error only
   when no report exists at any candidate path: whenever the first existing
   candidate is a report document, for any project_path string, the call
   parses it and does not return {error: <the located path>}. *)
C12_NotFoundOnlyWithoutReport ==
    ( /\ tool \in CoverageTools /\ Finished
      /\ ~NoReport(project_path)
      /\ fs[FirstExisting(project_path)].kind = "xml" )
    => /\ Parsed
       /\ tree = fs[FirstExisting(project_path)]
       /\ pc = "done" => result # [error |-> FirstExisting(project_path)]

----------------------------------------------------------------------------
(* Finding a source file by its path (SpecMissing) *)

EndsInJava(name) ==
    Len(name) > 5 /\ SubSeq(name, Len(name) - 4, Len(name)) = ".java"

\* the ci=0 line nodes of entry i
WrittenZeroCi(line) == "ci" \in DOMAIN line.attrs /\ HasZeroCi(line)

ZeroCiLines(i) == SelectSeq(tree.sourcefiles[i].lines, WrittenZeroCi)

ListsLine(line) ==
    \E n \in DOMAIN result.uncovered_lines :
        result.uncovered_lines[n] = EntryOf(line)

(* C13: when the report has a sourcefile entry named N.java with a line
   whose ci is 0, and file_path has the base name N.java (src/N.java, say),
   missing_coverage finds that entry: its ci=0 lines are listed and
   uncovered_lines is not empty. *)
C13_JavaEntryFoundByPath ==
    Listing =>
        \A i \in DOMAIN tree.sourcefiles :
            ( /\ EndsInJava(NameOf(i))
              /\ basename(file_path) = NameOf(i)
              /\ ZeroCiLines(i) # <<>> )
            => /\ result.uncovered_lines # <<>>
               /\ \A n \in DOMAIN ZeroCiLines(i) : ListsLine(ZeroCiLines(i)[n])

----------------------------------------------------------------------------
(* The git tools of src/final_project_se333_sidiqa/codebase/server.py *)

Whitespace == {" ", "\n", "\t"}

\* str.strip(): s without its leading and trailing whitespace
RECURSIVE lstrip(_)
lstrip(s) ==
    IF Len(s) > 0 /\ SubSeq(s, 1, 1) \in Whitespace
    THEN lstrip(SubSeq(s, 2, Len(s))) ELSE s

RECURSIVE rstrip(_)
rstrip(s) ==
    IF Len(s) > 0 /\ SubSeq(s, Len(s), Len(s)) \in Whitespace
    THEN rstrip(SubSeq(s, 1, Len(s) - 1)) ELSE s

strip(s) == rstrip(lstrip(s))

\* str.split(sep) for a one-character sep
RECURSIVE split(_, _)
split(s, sep) ==
    LET at == {i \in 1..Len(s) : SubSeq(s, i, i) = sep}
    IN  IF at = {} THEN <<s>>
        ELSE LET i == CHOOSE i \in at : \A j \in at : i <= j
             IN  <<SubSeq(s, 1, i - 1)>> \o split(SubSeq(s, i + 1, Len(s)), sep)

\* s[:n] and s[n:]
slice_to(s, n) == IF Len(s) <= n THEN s ELSE SubSeq(s, 1, n)
slice_from(s, n) == IF Len(s) <= n THEN "" ELSE SubSeq(s, n + 1, Len(s))

Completed(returncode, stdout, stderr) ==
    [returncode |-> returncode, stdout |-> stdout, stderr |-> stderr]

\* the text git status --porcelain writes for a sequence of lines
RECURSIVE Stdout(_)
Stdout(lines) ==
    IF lines = <<>> THEN "" ELSE Head(lines) \o "\n" \o Stdout(Tail(lines))

StatusArgv == <<"git", "status", "--porcelain">>
HeadArgv == <<"git", "rev-parse", "--abbrev-ref", "HEAD">>
AddArgv(files) == <<"git", "add">> \o files
PushArgv(remote, branch) == <<"git", "push", "-u", remote, branch>>

\* subprocess.run(argv, cwd=repo_path, capture_output=True, text=True):
\* the completed process, or the exception of a git that cannot be started
subprocess_run(argv) ==
    IF ~repo.git_ok
    THEN Raise("FileNotFoundError", "[Errno 2] No such file or directory: 'git'")
    ELSE Ok(CASE argv[2] = "status"    -> Completed(0, Stdout(repo.status), "")
              [] argv[2] = "rev-parse" -> Completed(0, repo.head, "")
              [] argv[2] = "push"      -> repo.push
              [] argv[2] = "add"       -> Completed(0, "", ""))

\* result.stdout.strip().split('\n'), without the lines the loops skip
porcelain_lines(stdout) ==
    SelectSeq(split(strip(stdout), "\n"), LAMBDA line : line # "")

\* git_status: for line in ...: status = line[:2]; file = line[3:]; ...
RECURSIVE status_loop(_, _)
status_loop(lines, st) ==
    IF lines = <<>> THEN st
    ELSE LET line   == Head(lines)
             status == slice_to(line, 2)
             file   == slice_from(line, 3)
             X      == SubSeq(status, 1, 1)
             Y      == SubSeq(status, 2, 2)
         IN  status_loop(Tail(lines),
               [staged_changes |->
                    IF X # " "
                    THEN Append(st.staged_changes, [file |-> file, status |-> X])
                    ELSE st.staged_changes,
                unstaged_changes |->
                    IF Y # " "
                    THEN Append(st.unstaged_changes, [file |-> file, status |-> Y])
                    ELSE st.unstaged_changes,
                conflicts |->
                    IF Contains(status, "U")
                    THEN Append(st.conflicts, file)
                    ELSE st.conflicts])

\* what a git tool call returns and the subprocess.run calls it made
Outcome(value, runs) == [value |-> value, runs |-> runs]

git_status(repo_path) ==
    LET run == subprocess_run(StatusArgv)
    IN  IF ~run.ok
        THEN Outcome([error |-> "Failed to get git status: " \o run.err],
                     <<StatusArgv>>)
        ELSE LET st == status_loop(porcelain_lines(run.val.stdout),
                                   [staged_changes |-> <<>>,
                                    unstaged_changes |-> <<>>,
                                    conflicts |-> <<>>])
             IN  Outcome([is_clean |-> /\ st.staged_changes = <<>>
                                       /\ st.unstaged_changes = <<>>
                                       /\ st.conflicts = <<>>,
                          staged_changes |-> st.staged_changes,
                          unstaged_changes |-> st.unstaged_changes,
                          conflicts |-> st.conflicts,
                          total_changes |-> Len(st.staged_changes)
                                            + Len(st.unstaged_changes)],
                         <<StatusArgv>>)

exclude_patterns ==
    << "target/", "build/", ".class", ".jar", "__pycache__/", "*.pyc",
       ".DS_Store", "node_modules/" >>

\* for pattern in exclude_patterns: if pattern in file: ...
should_exclude(file) ==
    \E i \in DOMAIN exclude_patterns : Contains(file, exclude_patterns[i])

\* git_add_all: for line in ...: file = line[3:]; ...
RECURSIVE add_loop(_, _)
add_loop(lines, st) ==
    IF lines = <<>> THEN st
    ELSE LET file == slice_from(Head(lines), 3)
         IN  add_loop(Tail(lines),
               IF should_exclude(file)
               THEN [st EXCEPT !.excluded_files = Append(@, file)]
               ELSE [st EXCEPT !.files_to_add = Append(@, file)])

git_add_all(repo_path) ==
    LET run == subprocess_run(StatusArgv)
    IN  IF ~run.ok
        THEN Outcome([error |-> "Failed to stage changes: " \o run.err],
                     <<StatusArgv>>)
        ELSE LET st == add_loop(porcelain_lines(run.val.stdout),
                                [files_to_add |-> <<>>, excluded_files |-> <<>>])
             IN  Outcome([success |-> TRUE,
                          files_staged |-> st.files_to_add,
                          files_excluded |-> st.excluded_files,
                          total_staged |-> Len(st.files_to_add),
                          total_excluded |-> Len(st.excluded_files)],
                         IF st.files_to_add # <<>>
                         THEN <<StatusArgv, AddArgv(st.files_to_add)>>
                         ELSE <<StatusArgv>>)

protected_branches == <<"main", "master">>

is_protected_main_only(branch) == branch = protected_branches[1]

\* if branch in protected_branches
is_protected(branch) ==
    \E i \in DOMAIN protected_branches : protected_branches[i] = branch

\* git_push from the protection check on, the branch being resolved
push_resolved(remote, branch, before) ==
    IF is_protected(branch)
    THEN Outcome([warning |-> "Branch '" \o branch \o
                     "' is protected. Consider creating a pull request instead.",
                  branch |-> branch],
                 before)
    ELSE LET run  == subprocess_run(PushArgv(remote, branch))
             runs == Append(before, PushArgv(remote, branch))
         IN  IF ~run.ok
             THEN Outcome([error |-> "Failed to push: " \o run.err], runs)
             ELSE IF run.val.returncode = 0
             THEN Outcome([success |-> TRUE,
                           message |-> "Successfully pushed '" \o branch \o
                                       "' to '" \o remote \o "'",
                           push_output |-> strip(run.val.stdout)],
                          runs)
             ELSE Outcome([success |-> FALSE,
                           error |-> IF run.val.stderr # ""
                                     THEN strip(run.val.stderr)
                                     ELSE "Push failed"],
                          runs)

git_push(repo_path, remote, branch) ==
    IF branch \in {None, ""}
    THEN LET run == subprocess_run(HeadArgv)
         IN  IF ~run.ok
             THEN Outcome([error |-> "Failed to push: " \o run.err], <<HeadArgv>>)
             ELSE push_resolved(remote, strip(run.val.stdout), <<HeadArgv>>)
    ELSE push_resolved(remote, branch, <<>>)

\* a call of a git tool, from dispatch to its return value
GitCall(t, a, outcome) ==
    /\ Idle
    /\ tool' = t
    /\ args' = a
    /\ result' = outcome.value
    /\ cmds' = outcome.runs
    /\ pc' = "done"
    /\ UNCHANGED <<fs, project_path, file_path, jacoco_path, tree, denoms,
                   processed, trace, repo, loader, registry, request>>

GitStatus(repo_path) ==
    GitCall("git_status", [repo_path |-> repo_path], git_status(repo_path))

GitAddAll(repo_path) ==
    GitCall("git_add_all", [repo_path |-> repo_path], git_add_all(repo_path))

GitPush(repo_path, remote, branch) ==
    GitCall("git_push",
            [repo_path |-> repo_path, remote |-> remote, branch |-> branch],
            git_push(repo_path, remote, branch))

\* the most lines of a git status output
MaxStatusLines == 2

StatusLines ==
    { " M src/App.java",
      "M  README.md",
      "MM src/Util.java",
      "UU pom.xml",
      "A  target/App.class",
      "?? cache/mod.pyc" }

\* what git rev-parse --abbrev-ref HEAD writes; nothing outside a repository
HeadOutputs == {"main\n", "master\n", "feature\n", ""}

PushResults ==
    { Completed(0, "branch 'feature' set up to track 'origin/feature'.\n", ""),
      Completed(1, "", "error: failed to push some refs\n"),
      Completed(1, "", "") }

Remotes == {"origin", "fork"}

Branches == {None, "", "main", "master", "feature"}

InitGit ==
    /\ fs = NoFiles
    /\ Idle
    /\ NoServer
    /\ \E lines \in SeqsUpTo(StatusLines, MaxStatusLines),
          head \in HeadOutputs, push \in PushResults, git_ok \in BOOLEAN :
         repo = [status |-> lines, head |-> head, push |-> push, git_ok |-> git_ok]

NextGit ==
    \/ GitStatus(".")
    \/ GitAddAll(".")
    \/ \E remote \in Remotes, branch \in Branches : GitPush(".", remote, branch)
    \/ Return

SpecGit == InitGit /\ [][NextGit]_vars

----------------------------------------------------------------------------
(* Properties of git_push (SpecGit) *)

Pushed == tool = "git_push" /\ pc = "done"

\* the subprocess.run calls of the current call that are a git push
PushRuns == {i \in DOMAIN cmds : cmds[i][2] = "push"}

BranchGiven == args.branch \notin {None, ""}

\* the current HEAD branch had to be asked for, and git answered
HeadAsked == ~BranchGiven /\ repo.git_ok

\* the branch the call pushes: the one given, else the current HEAD branch
ResolvedBranch == IF BranchGiven THEN args.branch ELSE strip(repo.head)

Resolved == BranchGiven \/ HeadAsked

Protected(branch) == branch \in {"main", "master"}

SuccessReported == "success" \in DOMAIN result /\ result.success

(* C14: git_push never runs git push for a protected branch. The branch is
   resolved first (the given one, else the current HEAD branch, asked for
   before anything else); when the resolved branch is main or master the
   call returns a mapping of a warning and the branch name and makes no
   push call; for any other resolved branch it makes exactly one call
   git push -u <remote> <branch>, as its last, and reports success iff
   that process ran and returned code 0. *)
C14_ProtectedNeverPushed ==
    Pushed =>
        /\ ~BranchGiven => cmds # <<>> /\ cmds[1] = HeadArgv
        /\ \A i \in PushRuns : i = Len(cmds) /\ Resolved
        /\ (Resolved /\ Protected(ResolvedBranch)) =>
              /\ PushRuns = {}
              /\ DOMAIN result = {"warning", "branch"}
              /\ result.branch = ResolvedBranch
        /\ (Resolved /\ ~Protected(ResolvedBranch)) =>
              /\ Cardinality(PushRuns) = 1
              /\ cmds[Len(cmds)] = <<"git", "push", "-u", args.remote, ResolvedBranch>>
              /\ SuccessReported <=> (repo.git_ok /\ repo.push.returncode = 0)

C14_Witness ==
    /\ Pushed
    /\ args.branch = None
    /\ repo.git_ok /\ repo.head = "master\n"
    /\ cmds = <<HeadArgv>>
    /\ result.branch = "master"
    /\ "warning" \in DOMAIN result

----------------------------------------------------------------------------
(* Properties of git_status and git_add_all (SpecGit) *)

\* a line XY path of git status --porcelain
XOf(line) == SubSeq(line, 1, 1)
YOf(line) == SubSeq(line, 2, 2)
PathOf(line) == SubSeq(line, 4, Len(line))

StatusDone == tool = "git_status" /\ pc = "done" /\ repo.git_ok
AddDone == tool = "git_add_all" /\ pc = "done" /\ repo.git_ok

\* the files a list of {file, status} entries names
FilesOf(entries) == {entries[n].file : n \in DOMAIN entries}

Elements(list) == {list[n] : n \in DOMAIN list}

(* C15: for every line XY path of the git status output, at whatever
   position, git_status reports the file under its exact path: in
   staged_changes iff X is not a space, in unstaged_changes iff Y is not a
   space, in conflicts iff X or Y is U; is_clean is true iff the output has
   no lines, and total_changes is the sum of the lengths of staged_changes
   and unstaged_changes. git_add_all derives the same paths. *)
C15_ExactPathsReported ==
    /\ StatusDone =>
         /\ \A i \in DOMAIN repo.status :
              LET line == repo.status[i]
              IN  /\ PathOf(line) \in FilesOf(result.staged_changes)
                        <=> XOf(line) # " "
                  /\ PathOf(line) \in FilesOf(result.unstaged_changes)
                        <=> YOf(line) # " "
                  /\ PathOf(line) \in Elements(result.conflicts)
                        <=> (XOf(line) = "U" \/ YOf(line) = "U")
         /\ result.is_clean <=> repo.status = <<>>
         /\ result.total_changes =
               Len(result.staged_changes) + Len(result.unstaged_changes)
    /\ AddDone =>
         Elements(result.files_staged) \cup Elements(result.files_excluded)
            = {PathOf(repo.status[i]) : i \in DOMAIN repo.status}

----------------------------------------------------------------------------
(* Properties of git_add_all (SpecGit) *)

EndsWith(s, t) == Len(s) >= Len(t) /\ SubSeq(s, Len(s) - Len(t) + 1, Len(s)) = t

\* a build artifact or temporary file under the exclusion patterns
IsArtifact(path) ==
    \/ \E p \in {"target/", "build/", ".class", ".jar", "__pycache__/",
                 ".DS_Store", "node_modules/"} : Contains(path, p)
    \/ EndsWith(path, ".pyc")

\* the subprocess.run calls of the current call that are a git add
AddRuns == {i \in DOMAIN cmds : cmds[i][2] = "add"}

\* the files handed to git add
Added == UNION {{cmds[i][k] : k \in 3..Len(cmds[i])} : i \in AddRuns}

\* strip() leaves the first line of the output as git wrote it
FirstLineKept == repo.status = <<>> \/ XOf(repo.status[1]) # " "

(* C16: git_add_all partitions the changed files of git status: every
   changed file is in exactly one of files_staged and files_excluded,
   total_staged and total_excluded are the lengths of those lists, no build
   artifact or temporary file under the exclusion patterns is handed to
   git add, and git add is not run when files_staged is empty. (Stated for
   outputs whose first line does not begin with a space, the case of C15.) *)
C16_ArtifactsNeverAdded ==
    (AddDone /\ FirstLineKept) =>
        /\ \A i \in DOMAIN repo.status :
              PathOf(repo.status[i]) \in Elements(result.files_staged)
                 <=> PathOf(repo.status[i]) \notin Elements(result.files_excluded)
        /\ result.total_staged = Len(result.files_staged)
        /\ result.total_excluded = Len(result.files_excluded)
        /\ \A file \in Added : ~IsArtifact(file)
        /\ result.files_staged = <<>> => AddRuns = {}

====
